---- MODULE Spec2Model ----
(***************************************************************************)
(* Game lifecycle and settlement engine of the betting backend             *)
(* (server/routes/games.ts, server/routes/results.ts, server/app.ts).      *)
(*                                                                         *)
(* Strings that the code indexes (bet numbers, declared results) are       *)
(* sequences of one-character strings; a missing (undefined) or empty      *)
(* request field is the empty sequence, both being falsy in the code.      *)
(* Times of day are such strings too ("HH:mm").  Money is in whole rupees; *)
(* stakes are multiples of 100 so that the commission (a percentage) is a  *)
(* whole number, as it is in the code's floating point for these values.   *)
(*                                                                         *)
(* results.ts holds two versions of its routes; the later one (from line   *)
(* 455 on), which takes the per-type result fields, is the one modelled.   *)
(***************************************************************************)
EXTENDS Integers, Sequences, FiniteSets, TLC

\* ------------------------------------------------------------ bounds
MaxBets == 2          \* bets placed in one behaviour
MaxDay == 1           \* calendar days the clock runs through
MaxCalls == 2         \* result declarations requested in one behaviour
MaxAdminOps == 1      \* configuration changes an admin makes in one behaviour
MaxRequests == 4      \* requests of all three kinds handled in one behaviour
InitialDeposit == 200 \* deposit balance every wallet starts with

\* ------------------------------------------------------------ program constants
DefaultJodiPayout == 95
DefaultHarufPayout == 9
DefaultCrossingPayout == 95
DefaultCommission == 5
DefaultMinBet == 10
DefaultMaxBet == 10000
MinutesPerDay == 1440
MinutesPerHour == 60

\* ------------------------------------------------------------ input sets
Users == {"u1", "u2"}
GameTypes == {"jodi", "haruf", "crossing"}
\* The types of the game the behaviours are about.
InitGameTypes == {"jodi"}
Statuses == {"waiting", "open", "closed", "result_declared"}
None == "none"

\* The instants of a day at which requests arrive, in order.
Clock == << <<"1", "2", ":", "0", "0">>, <<"1", "5", ":", "3", "0">> >>

\* Stakes a request may carry (0 is the missing / non-positive amount).
BetAmounts == {0, 100}

\* Bet requests: type, number and the free-form betData.
BetRequests ==
  { [betType |-> "jodi", betNumber |-> <<"1", "2">>, harufPosition |-> None, harufDigit |-> <<>>],
    [betType |-> "haruf", betNumber |-> <<"2">>, harufPosition |-> "first", harufDigit |-> <<"2">>],
    [betType |-> "patti", betNumber |-> <<"1", "2">>, harufPosition |-> None, harufDigit |-> <<>>] }

\* Result values an admin may send in one field of a declaration request.
ResultInputs == { <<>>, <<"1", "2">> }

\* Payout values an admin may set with updateGame.
PayoutInputs == {2}

\* ------------------------------------------------------------ strings
Digits == {"0", "1", "2", "3", "4", "5", "6", "7", "8", "9"}

Range(s) == {s[i] : i \in 1..Len(s)}

\* String.prototype.charAt(i): the empty string when i is out of range.
CharAt(s, i) == IF i < Len(s) THEN <<s[i + 1]>> ELSE <<>>

\* String.prototype.includes(sub)
Includes(s, sub) ==
  \E i \in 0..(Len(s) - Len(sub)) : SubSeq(s, i + 1, i + Len(sub)) = sub

RECURSIVE TrimLeft(_)
TrimLeft(s) == IF s # <<>> /\ Head(s) = " " THEN TrimLeft(Tail(s)) ELSE s

RECURSIVE TrimRight(_)
TrimRight(s) ==
  IF s # <<>> /\ s[Len(s)] = " " THEN TrimRight(SubSeq(s, 1, Len(s) - 1)) ELSE s

\* String.prototype.trim()
Trim(s) == TrimRight(TrimLeft(s))

\* a || b on strings: the first one that is not empty
Or(a, b) == IF a # <<>> THEN a ELSE b

\* The decimal digits in order, and the value of one.
DigitChars == <<"0", "1", "2", "3", "4", "5", "6", "7", "8", "9">>

DigitValue(c) == (CHOOSE k \in 1..Len(DigitChars) : DigitChars[k] = c) - 1

\* Number(s) of a string of decimal digits.
RECURSIVE Number(_)
Number(s) ==
  IF s = <<>> THEN 0
  ELSE Number(SubSeq(s, 1, Len(s) - 1)) * Len(DigitChars) + DigitValue(s[Len(s)])

\* The UTF-16 code unit of a character of a time string: ":" follows "9".
CharCode(c) == IF c = ":" THEN Len(DigitChars) + 1 ELSE DigitValue(c) + 1

\* a < b on strings: the comparison by code units, a proper prefix being less.
RECURSIVE StringLess(_, _)
StringLess(a, b) ==
  IF b = <<>> THEN FALSE
  ELSE IF a = <<>> THEN TRUE
  ELSE IF Head(a) # Head(b) THEN CharCode(Head(a)) < CharCode(Head(b))
  ELSE StringLess(Tail(a), Tail(b))

\* a >= b on strings
StringGeq(a, b) == ~StringLess(a, b)

RECURSIVE SumSeq(_)
SumSeq(s) == IF s = <<>> THEN 0 ELSE Head(s) + SumSeq(Tail(s))

\* ------------------------------------------------------------ state
VARIABLES
  game,         \* the Game document
  now,          \* the wall clock: [day, slot], slot an index of Clock
  bets,         \* the Bet collection, in insertion order
  wallets,      \* the Wallet collection, by user
  users,        \* the User collection, by user (the fields results.ts credits)
  ledger,       \* the Transaction collection, in insertion order
  gameResults,  \* the GameResult collection, in insertion order
  calls,        \* number of declaration requests made so far
  adminOps,     \* number of configuration changes made so far
  declared,     \* history: the rounds (days) a declaration has succeeded for
  last,         \* history: the declaration request just handled, if the last request was one
  runs          \* the declareResult requests in flight, by request: position and locals

vars == <<game, now, bets, wallets, users, ledger, gameResults, calls, adminOps, declared, last, runs>>

\* Requests handled so far that changed the state or were declarations.
Requests == Len(bets) + adminOps + calls

\* ------------------------------------------------------------ clock / window evaluator
\* time.split(":").map(Number), hours * 60 + minutes (games.ts 225-228)
timeToMinutes(time) ==
  LET colon == CHOOSE k \in 1..Len(time) : time[k] = ":"
      hours == Number(SubSeq(time, 1, colon - 1))
      minutes == Number(SubSeq(time, colon + 1, Len(time)))
  IN hours * MinutesPerHour + minutes

currentMinutes == timeToMinutes(Clock[now.slot])

\* isGameOpen of placeBet's guard with the cross-day window closed at both
\* ends, as the same-day one is.
IsGameOpenBothEnds(startMinutes, endMinutes, cur) ==
  cur >= startMinutes /\ cur < endMinutes

\* isGameOpen of placeBet's guard (games.ts 240-251).
IsGameOpen(startMinutes, endMinutes, cur) ==
  IF endMinutes > startMinutes
    THEN cur >= startMinutes /\ cur < endMinutes
    ELSE cur >= startMinutes \/ cur < endMinutes

\* isGameClosed of placeBet's guard with the end of the window counted as
\* still open.
IsGameClosedAfterEnd(startMinutes, endMinutes, resultMinutes, cur) ==
  cur > endMinutes /\ cur < resultMinutes

\* isGameClosed of placeBet's guard with, for a result time not after the end
\* time, only the minutes before the result time counted.
IsGameClosedBeforeResult(startMinutes, endMinutes, resultMinutes, cur) ==
  IF resultMinutes > endMinutes
    THEN cur >= endMinutes /\ cur < resultMinutes
    ELSE cur >= 0 /\ cur < resultMinutes

\* isGameClosed of placeBet's guard (games.ts 240-266).
IsGameClosed(startMinutes, endMinutes, resultMinutes, cur) ==
  IF endMinutes > startMinutes
    THEN cur >= endMinutes /\ cur < resultMinutes
  ELSE IF resultMinutes > endMinutes
    THEN cur >= endMinutes /\ cur < resultMinutes
  ELSE (cur >= endMinutes /\ cur < MinutesPerDay) \/ (cur >= 0 /\ cur < resultMinutes)

\* isResultTime of placeBet's guard (games.ts 240-266).
IsResultTime(startMinutes, endMinutes, resultMinutes, cur) ==
  IF endMinutes > startMinutes
    THEN cur >= resultMinutes
    ELSE cur >= resultMinutes /\ cur < startMinutes

\* The time-based status of placeBet's guard (games.ts 230-276).
TimeStatus(g, cur) ==
  LET startMinutes == timeToMinutes(g.startTime)
      endMinutes == timeToMinutes(g.endTime)
      resultMinutes == timeToMinutes(g.resultTime)
  IN IF IsGameOpen(startMinutes, endMinutes, cur) THEN "open"
     ELSE IF IsGameClosed(startMinutes, endMinutes, resultMinutes, cur) THEN "closed"
     ELSE IF IsResultTime(startMinutes, endMinutes, resultMinutes, cur) THEN "result_declared"
     ELSE "waiting"

\* The status placeBet would act on were the clock alone to decide.
GameStatusByClock(g, cur) ==
  IF g.isActive THEN TimeStatus(g, cur) ELSE "waiting"

\* The status placeBet acts on (games.ts 213-296): forced status first.
GameStatus(g, cur) ==
  IF g.forcedStatus # None /\ g.isActive THEN g.forcedStatus
  ELSE IF g.isActive THEN TimeStatus(g, cur)
  ELSE "waiting"

\* The currentStatus getAllGames returns for a game at clock reading
\* currentTime (games.ts 20-92).
ListingStatus(g, currentTime) ==
  IF g.forcedStatus # None /\ g.isActive THEN g.forcedStatus
  ELSE
    LET currentMins == timeToMinutes(currentTime)
        startMinutes == timeToMinutes(g.startTime)
        endMinutes == timeToMinutes(g.endTime)
        resultMinutes == timeToMinutes(g.resultTime)
        sameDay == endMinutes > startMinutes
        isGameOpen ==
          IF sameDay THEN currentMins >= startMinutes /\ currentMins < endMinutes
          ELSE currentMins >= startMinutes \/ currentMins < endMinutes
        isGameClosed ==
          IF sameDay THEN currentMins >= endMinutes /\ currentMins < resultMinutes
          ELSE IF resultMinutes > endMinutes
            THEN currentMins >= endMinutes /\ currentMins < resultMinutes
            ELSE \/ currentMins >= endMinutes /\ currentMins < MinutesPerDay
                 \/ currentMins >= 0 /\ currentMins < resultMinutes
        isResultTime ==
          IF sameDay THEN currentMins >= resultMinutes
          ELSE currentMins >= resultMinutes /\ currentMins < startMinutes
    IN IF ~g.isActive THEN "waiting"
       ELSE IF isGameOpen THEN "open"
       ELSE IF isGameClosed THEN "closed"
       ELSE IF isResultTime THEN "result_declared"
       ELSE "waiting"

\* The currentStatus getGameById returns (games.ts 131-150): the times are
\* compared as strings.
LookupStatus(g, currentTime) ==
  IF g.forcedStatus # None /\ g.isActive THEN g.forcedStatus
  ELSE IF g.isActive THEN
    IF StringGeq(currentTime, g.startTime) /\ StringLess(currentTime, g.endTime)
      THEN "open"
    ELSE IF StringGeq(currentTime, g.endTime) /\ StringLess(currentTime, g.resultTime)
      THEN "closed"
    ELSE IF StringGeq(currentTime, g.resultTime) THEN "result_declared"
    ELSE "waiting"
  ELSE "waiting"

\* ------------------------------------------------------------ initial state
NewWallet ==
  [depositBalance |-> 0, winningBalance |-> 0, totalWinnings |-> 0, totalBets |-> 0]

\* The record of an evaluation: the declaration request whose results the
\* Wager Evaluator is handed, and the verdict ("true", "false" or the error
\* thrown) of the winner check of declareResult, of checkBetWinning in
\* processBetsForResult and of checkBetWinning in the user-bets summary;
\* whether testHarufLogic has run, and the number of cases it counted as
\* passed.
NoEval ==
  [req |-> [jodiResult |-> <<>>, harufResult |-> <<>>, crossingResult |-> <<>>,
            declaredResult |-> <<>>],
   isWinner |-> None, isWinning |-> None, summary |-> None,
   tested |-> FALSE, passed |-> 0]

\* The record of a declaration request: the endpoint, its response, the round
\* (day) it was for, whether a declaration for that round had succeeded
\* before, the clock reading, the Clock/Window Evaluator's status and whether a result was on
\* record when it arrived, the result value it carried for the game's type,
\* the bets it fetched and those it found to be winners, and the collections
\* as they were when it arrived. For a placeBet request on record: the
\* player, the bet type and the amount sent, and the write that threw. For a
\* user-bets request: the player, the isWinning it reports for each bet and
\* its totalWinAmount.
NoLast ==
  [op |-> None, outcome |-> None, round |-> 0, prior |-> FALSE,
   at |-> <<>>, status |-> None, hadResult |-> FALSE, typeResult |-> <<>>,
   fetched |-> {}, winners |-> {},
   bet |-> [userId |-> None, betType |-> None, betAmount |-> 0, failAt |-> 0],
   eval |-> NoEval,
   summary |-> [isWinning |-> <<>>, totalWinAmount |-> 0],
   pre |-> [game |-> <<>>, bets |-> <<>>, wallets |-> <<>>, users |-> <<>>,
            ledger |-> <<>>, gameResults |-> <<>>]]

\* The requests that may be in flight together.
Procs == 1..MaxCalls

\* A declareResult request: where it is (idle, loop, credit, save or done),
\* the day it is for, its body, the index of the GameResult its findOne
\* returned, the pending bets its Bet.find returned and those documents in
\* memory, the next one to process, the wallet document its Wallet.findOne
\* returned, its accumulators and its response.
IdleRun ==
  [pc |-> "idle", today |-> 0, req |-> <<>>, existing |-> 0, snapshot |-> <<>>,
   mem |-> <<>>, pos |-> 1, wallet |-> NewWallet, totalWinningAmount |-> 0,
   winners |-> {}, outcome |-> None]

\* Nothing has been requested yet.
InitCollections ==
  /\ now = [day |-> 1, slot |-> 1]
  /\ bets = <<>>
  /\ wallets = [u \in Users |-> [NewWallet EXCEPT !.depositBalance = InitialDeposit]]
  /\ users = [u \in Users |-> [winningBalance |-> 0, totalWinnings |-> 0]]
  /\ ledger = <<>>
  /\ gameResults = <<>>
  /\ calls = 0
  /\ adminOps = 0
  /\ declared = {}
  /\ last = NoLast
  /\ runs = [p \in Procs |-> IdleRun]

\* A game as createGame stores it (Game.ts defaults).
NewGame(t) ==
  [type |-> t, isActive |-> TRUE,
   startTime |-> <<"1", "0", ":", "0", "0">>,
   endTime |-> <<"1", "5", ":", "0", "0">>,
   resultTime |-> <<"1", "6", ":", "0", "0">>,
   minBet |-> DefaultMinBet, maxBet |-> DefaultMaxBet,
   commission |-> DefaultCommission,
   jodiPayout |-> DefaultJodiPayout, harufPayout |-> DefaultHarufPayout,
   crossingPayout |-> DefaultCrossingPayout,
   declaredResult |-> <<>>, currentStatus |-> "waiting",
   forcedStatus |-> None, lastResultDate |-> 0]

Init ==
  /\ \E t \in InitGameTypes : game = NewGame(t)
  /\ InitCollections

\* ------------------------------------------------------------ clock
\* Time passes to the next instant, of the same day or of the next.
Tick ==
  /\ now.slot < Len(Clock) \/ now.day < MaxDay
  /\ now' = IF now.slot < Len(Clock)
             THEN [now EXCEPT !.slot = now.slot + 1]
             ELSE [day |-> now.day + 1, slot |-> 1]
  /\ last' = NoLast
  /\ UNCHANGED <<game, bets, wallets, users, ledger, gameResults, calls, adminOps, declared, runs>>

\* ------------------------------------------------------------ handler runs
\* A handler run carries the collections it writes, its accumulators, the
\* number of database writes it has completed and whether one has thrown.
\* failAt = k > 0 makes the k-th write of the run throw; failAt = 0 none.
StartRun ==
  [game |-> game, bets |-> bets, wallets |-> wallets, users |-> users,
   ledger |-> ledger, gameResults |-> gameResults,
   totalWinningAmount |-> 0, winners |-> {}, writes |-> 0, failed |-> FALSE]

\* One awaited database write: it throws, or it takes st to after.
Write(st, failAt, after) ==
  IF st.failed THEN st
  ELSE IF st.writes + 1 = failAt THEN [st EXCEPT !.failed = TRUE]
  ELSE [after EXCEPT !.writes = st.writes + 1]

\* ------------------------------------------------------------ placeBet
\* The payout multiplier of a bet type (games.ts 353-366); 0 for "Invalid bet type".
Multiplier(g, betType) ==
  CASE betType = "jodi" -> g.jodiPayout
    [] betType = "haruf" -> g.harufPayout
    [] betType = "crossing" -> g.crossingPayout
    [] OTHER -> 0

\* placeBet's decision with the betting window left unchecked.
PlaceBetOutcomeAnyStatus(u, req, betAmount, currentTime) ==
  IF betAmount = 0 THEN "MissingFields"
  ELSE IF betAmount <= 0 THEN "InvalidAmount"
  ELSE IF ~game.isActive THEN "GameInactive"
  ELSE IF betAmount < game.minBet \/ betAmount > game.maxBet THEN "InvalidAmount"
  ELSE IF wallets[u].depositBalance < betAmount THEN "InsufficientBalance"
  ELSE IF Multiplier(game, req.betType) = 0 THEN "InvalidBetType"
  ELSE "ok"

\* placeBet's decision with the wallet's balance left unchecked.
PlaceBetOutcomeAnyBalance(u, req, betAmount, currentTime) ==
  IF betAmount = 0 THEN "MissingFields"
  ELSE IF betAmount <= 0 THEN "InvalidAmount"
  ELSE IF ~game.isActive THEN "GameInactive"
  ELSE IF GameStatus(game, timeToMinutes(currentTime)) # "open" THEN "BettingClosed"
  ELSE IF betAmount < game.minBet \/ betAmount > game.maxBet THEN "InvalidAmount"
  ELSE IF Multiplier(game, req.betType) = 0 THEN "InvalidBetType"
  ELSE "ok"

\* The reason placeBet rejects a request made at clock reading currentTime,
\* or "ok" (games.ts 183-366).
PlaceBetOutcome(u, req, betAmount, currentTime) ==
  IF betAmount = 0 THEN "MissingFields"
  ELSE IF betAmount <= 0 THEN "InvalidAmount"
  ELSE IF ~game.isActive THEN "GameInactive"
  ELSE IF GameStatus(game, timeToMinutes(currentTime)) # "open" THEN "BettingClosed"
  ELSE IF betAmount < game.minBet \/ betAmount > game.maxBet THEN "InvalidAmount"
  ELSE IF wallets[u].depositBalance < betAmount THEN "InsufficientBalance"
  ELSE IF Multiplier(game, req.betType) = 0 THEN "InvalidBetType"
  ELSE "ok"

\* The Bet document placeBet creates (games.ts 368, 388-412).
NewBet(u, req, betAmount, txnId) ==
  [userId |-> u, gameType |-> game.type, betType |-> req.betType,
   betNumber |-> req.betNumber, betAmount |-> betAmount,
   potentialWinning |-> betAmount * Multiplier(game, req.betType),
   harufPosition |-> req.harufPosition, harufDigit |-> req.harufDigit,
   gameDate |-> now.day, status |-> "pending",
   deductionTransactionId |-> txnId,
   \* the booleans isWinner and isWinning are "true", "false" or not set
   isWinner |-> None, winningAmount |-> 0, winningTransactionId |-> 0,
   isWinning |-> None, resultDeclared |-> FALSE,
   \* history: multiplier at placement, credits received, evaluations undergone,
   \* whether a run that then aborted has credited it, the round it was settled in
   placedMultiplier |-> Multiplier(game, req.betType), credits |-> 0, evals |-> 0,
   abortCredited |-> FALSE, settledIn |-> 0]

\* What a transaction leaves when every write of its body is kept as it was
\* made.
WithoutTransaction(st0, st) == st

\* session.withTransaction (games.ts 325, 431): the writes of the body, all
\* made with the session, are committed together, or none is when it throws.
withTransaction(st0, st) == IF st.failed THEN st0 ELSE st

\* The writes awaited in the transaction of placeBet (games.ts 371-417): the
\* "bet" transaction, the bet, the wallet.
BetWrites(st0, u, req, betAmount, failAt) ==
  LET txnId == Len(st0.ledger) + 1
      s1 == Write(st0, failAt,
              [st0 EXCEPT !.ledger = Append(@, [userId |-> u, type |-> "bet",
                                                amount |-> betAmount,
                                                bet |-> Len(st0.bets) + 1])])
      s2 == Write(s1, failAt,
              [s1 EXCEPT !.bets = Append(@, NewBet(u, req, betAmount, txnId))])
  IN Write(s2, failAt,
       [s2 EXCEPT !.wallets[u].depositBalance = @ - betAmount,
                  !.wallets[u].totalBets = @ + betAmount])

\* Writes of placeBet that may throw: none, or the first, second or third.
BetFailures == 0..3

\* placeBet (games.ts 166-477) for a request made at clock reading
\* currentTime: its response and the collections it leaves.
placeBet(u, req, betAmount, currentTime, failAt) ==
  LET outcome == PlaceBetOutcome(u, req, betAmount, currentTime)
      st0 == StartRun
      st == BetWrites(st0, u, req, betAmount, failAt)
  IN IF outcome # "ok" THEN [outcome |-> outcome, st |-> st0]
     ELSE [outcome |-> IF st.failed THEN "ServerError" ELSE "ok",
           st |-> withTransaction(st0, st)]

PlaceBet ==
  \E u \in Users, req \in BetRequests, betAmount \in BetAmounts :
  \E failAt \in IF PlaceBetOutcome(u, req, betAmount, Clock[now.slot]) = "ok"
                  THEN BetFailures ELSE {0} :
    LET res == placeBet(u, req, betAmount, Clock[now.slot], failAt)
    IN /\ Len(bets) < MaxBets /\ Requests < MaxRequests
       /\ ledger' = res.st.ledger
       /\ bets' = res.st.bets
       /\ wallets' = res.st.wallets
       /\ last' = NoLast
       /\ UNCHANGED <<game, now, users, gameResults, calls, adminOps, declared, runs>>

\* ------------------------------------------------------------ admin: game configuration
\* Bodies an admin sends to updateGame: any subset of the Game fields.
UpdateBodies ==
  { [jodiPayout |-> p, harufPayout |-> p, crossingPayout |-> p] : p \in PayoutInputs }
  \cup { [currentStatus |-> "closed"] }

\* The most an admin may set minBet to with updateGame (games.ts 640), and
\* the least the schema lets minBet and maxBet be (Game.ts 101, 107).
MinBetCap == 5000
SchemaMinBet == 1

\* A limit the body carries, as the handlers test it: a field that is absent
\* or 0 is falsy.
Carries(body, f) == f \in DOMAIN body /\ body[f] # 0

\* The schema's validators on the limits a body carries (Game.ts 98-109),
\* run by save() and by findByIdAndUpdate with runValidators.
LimitsValid(body) ==
  \A f \in {"minBet", "maxBet"} : f \in DOMAIN body => body[f] >= SchemaMinBet

\* updateGame's response to a body (games.ts 639-688).
UpdateGameOutcome(body) ==
  IF Carries(body, "minBet") /\ body.minBet > MinBetCap THEN "MinBetTooHigh"
  ELSE IF Carries(body, "minBet") /\ Carries(body, "maxBet") /\ body.minBet > body.maxBet
    THEN "MinBetAboveMaxBet"
  ELSE IF ~LimitsValid(body) THEN "ValidationError"
  ELSE "ok"

\* The document with the fields of the body set.
WithBody(doc, body) ==
  [f \in DOMAIN doc |-> IF f \in DOMAIN body THEN body[f] ELSE doc[f]]

\* updateGame (games.ts 635-689): Game.findByIdAndUpdate(gameId, req.body).
UpdateGame ==
  \E body \in UpdateBodies :
    /\ game' = IF UpdateGameOutcome(body) = "ok" THEN WithBody(game, body) ELSE game
    /\ adminOps < MaxAdminOps /\ Requests < MaxRequests
    /\ adminOps' = adminOps + 1
    /\ last' = NoLast
    /\ UNCHANGED <<now, bets, wallets, users, ledger, gameResults, calls, declared, runs>>

\* POST /api/admin/games/update-payouts (app.ts 227-259).
UpdatePayouts ==
  /\ game' = [game EXCEPT !.jodiPayout = DefaultJodiPayout,
                          !.harufPayout = DefaultHarufPayout,
                          !.crossingPayout = DefaultCrossingPayout]
  /\ adminOps < MaxAdminOps /\ Requests < MaxRequests
  /\ adminOps' = adminOps + 1
  /\ last' = NoLast
  /\ UNCHANGED <<now, bets, wallets, users, ledger, gameResults, calls, declared, runs>>

\* Statuses an admin may send to forceGameStatus ("paused" is not a status).
ForceInputs == {"closed", "paused"}

\* forceGameStatus (games.ts 692-731) for the statuses an admin may send.
forceGameStatus(inputs) ==
  \E forceStatus \in inputs :
    /\ adminOps < MaxAdminOps /\ Requests < MaxRequests
    /\ IF forceStatus \in Statuses
         THEN /\ game' = [game EXCEPT !.forcedStatus = forceStatus]
              /\ adminOps' = adminOps + 1
         ELSE UNCHANGED <<game, adminOps>>
    /\ last' = NoLast
    /\ UNCHANGED <<now, bets, wallets, users, ledger, gameResults, calls, declared, runs>>

ForceGameStatus == forceGameStatus(ForceInputs)

\* ------------------------------------------------------------ wager evaluators
\* The winner check inside declareResult (games.ts 863-916); win is the
\* "unified winning number", the request's result field for the game's type.
IsWinnerGames(bet, win) ==
  CASE bet.betType = "jodi" -> bet.betNumber = win
    [] bet.betType = "haruf" ->
         IF bet.harufPosition = "first" THEN bet.betNumber = CharAt(win, 0)
         ELSE IF bet.harufPosition = "last" THEN bet.betNumber = CharAt(win, 1)
         ELSE win # <<>> /\ Includes(win, bet.betNumber)
    [] bet.betType = "crossing" ->
         \/ bet.betNumber = win
         \/ /\ win # <<>> /\ bet.betNumber # <<>>
            /\ Len(win) >= 2 /\ Len(bet.betNumber) = 2
            /\ \A k \in 1..Len(bet.betNumber) : bet.betNumber[k] \in Range(win)
    [] OTHER -> FALSE

\* betNumber.match(/^([AB])(\d)$/i) (results.ts 1036)
MatchesLetterDigit(betNumber) ==
  /\ Len(betNumber) = 2
  /\ betNumber[1] \in {"A", "B", "a", "b"}
  /\ betNumber[2] \in Digits

\* checkBetWinning (results.ts 995-1077); dr is the per-type record of results.
checkBetWinning(bet, dr) ==
  CASE bet.betType = "jodi" -> bet.betNumber = dr.jodi
    [] bet.betType = "haruf" ->
         IF dr.haruf = <<>> THEN FALSE
         ELSE
           LET firstDigit == <<dr.haruf[1]>>
               lastDigit == <<dr.haruf[Len(dr.haruf)]>>
               incomplete == bet.harufDigit = <<>> \/ bet.harufPosition = None
               legacy == incomplete /\ MatchesLetterDigit(bet.betNumber)
               harufPosition ==
                 IF legacy
                   THEN (IF bet.betNumber[1] \in {"A", "a"} THEN "first" ELSE "last")
                   ELSE bet.harufPosition
               harufDigit == IF legacy THEN <<bet.betNumber[2]>> ELSE bet.harufDigit
           IN IF harufPosition # None /\ harufDigit # <<>>
                THEN IF harufPosition \in {"first", "andhar"} THEN harufDigit = firstDigit
                     ELSE IF harufPosition \in {"last", "bahar"} THEN harufDigit = lastDigit
                     ELSE FALSE
                ELSE FALSE
    [] bet.betType = "crossing" ->
         \E i \in 1..Len(dr.crossing), j \in 1..Len(dr.crossing) :
           i # j /\ bet.betNumber = <<dr.crossing[i], dr.crossing[j]>>
    [] OTHER -> FALSE

\* The fields checkBetWinning reads of the object it is handed (results.ts
\* 1004-1006, 1030-1031): a field the object lacks reads as the empty string
\* (betNumber, betData.harufDigit, betData.harufPosition) or as undefined
\* (betType).
ReadBet(bet) ==
  [betType |-> IF "betType" \in DOMAIN bet THEN bet.betType ELSE None,
   betNumber |-> IF "betNumber" \in DOMAIN bet THEN bet.betNumber ELSE <<>>,
   harufDigit |-> IF "harufDigit" \in DOMAIN bet THEN bet.harufDigit ELSE <<>>,
   harufPosition |-> IF "harufPosition" \in DOMAIN bet THEN bet.harufPosition ELSE None]

\* The declared results handed to checkBetWinning: the per-type record, or a
\* plain string.
AsRecord(dr) == [kind |-> "record", value |-> dr]
AsString(str) == [kind |-> "string", value |-> str]

\* checkBetWinning (results.ts 995-1077) on whatever it is handed: "true",
\* "false", or "TypeError" when it throws. Of a plain string the properties
\* jodi, haruf and crossing are undefined; the empty string is falsy.
CheckBetWinningOn(bet, declaredResults) ==
  LET read == ReadBet(bet)
  IN IF declaredResults.kind = "string" /\ declaredResults.value = <<>> THEN "false"
     ELSE IF read.betType = None THEN "false"
     ELSE IF declaredResults.kind = "string" THEN
       IF read.betType = "crossing" THEN "TypeError" ELSE "false"
     ELSE IF checkBetWinning(read, declaredResults.value) THEN "true"
     ELSE "false"

\* ------------------------------------------------------------ settlement: shared pieces
\* The indices of the bets Bet.find({gameId, status: "pending"}) returns.
PendingBets(bs) == {i \in 1..Len(bs) : bs[i].status = "pending"}

RECURSIVE SetToSeq(_)
SetToSeq(S) ==
  IF S = {} THEN <<>>
  ELSE LET m == CHOOSE x \in S : \A y \in S : x <= y
       IN <<m>> \o SetToSeq(S \ {m})

\* ------------------------------------------------------------ declareResult (games.ts)
\* The resultDate of a declaration request: 0 for none given, or a day up to
\* the day after the clock's last.
ResultDates == 0..(MaxDay + 1)

\* Declaration requests: at most one of the result fields carries a value.
DeclareRequests ==
  { r \in [jodiResult : ResultInputs, harufResult : ResultInputs,
           crossingResult : ResultInputs, declaredResult : ResultInputs] :
      Cardinality({f \in DOMAIN r : r[f] # <<>>}) <= 1 }

\* The request's result for the game's type (games.ts 855-860).
UnifiedWinningNumber(g, req) ==
  IF g.type = "jodi" THEN req.jodiResult
  ELSE IF g.type = "haruf" THEN req.harufResult
  ELSE req.crossingResult

\* bet.winningAmount of a winner (games.ts 920), recomputed from the game's
\* current multipliers: the behaviour the frozen potentialWinning rules out.
WinningAmountRecomputed(mem) == mem.betAmount * Multiplier(game, mem.betType)

\* bet.winningAmount of a winner (games.ts 920).
WinningAmount(mem) == mem.potentialWinning

\* One iteration of the bet loop (games.ts 840-963) on the document mem that
\* Bet.find returned for bet i: wallet.save(), Transaction.create() and
\* bet.save() for a winner, bet.save() for a loser. wallet is the document
\* Wallet.findOne returned (games.ts 931): save() writes the two fields the
\* handler assigned, computed from that document.
SettleBetWith(st, i, mem, wallet, win, failAt) ==
  IF st.failed THEN st
  ELSE
    LET amount == WinningAmount(mem)
        u == mem.userId
        seen == [st EXCEPT !.bets[i].evals = @ + 1]
        credited == [seen EXCEPT !.wallets[u].winningBalance = wallet.winningBalance + amount,
                                 !.wallets[u].totalWinnings = wallet.totalWinnings + amount,
                                 !.bets[i].credits = @ + 1]
        s1 == Write(seen, failAt, credited)
        recorded == [s1 EXCEPT !.ledger = Append(@, [userId |-> u, type |-> "win",
                                                     amount |-> amount, bet |-> i])]
        s2 == Write(s1, failAt, recorded)
        won == [s2 EXCEPT !.bets[i].isWinner = "true",
                          !.bets[i].winningAmount = amount,
                          !.bets[i].status = "won",
                          !.bets[i].winningTransactionId = Len(s2.ledger),
                          !.totalWinningAmount = @ + amount,
                          !.winners = @ \cup {i}]
        lost == [seen EXCEPT !.bets[i].isWinner = "false", !.bets[i].status = "lost"]
    IN IF IsWinnerGames(mem, win) THEN Write(s2, failAt, won)
       ELSE Write(seen, failAt, lost)

\* One iteration of the bet loop with nothing between Wallet.findOne and
\* wallet.save().
SettleBetGames(st, i, mem, win, failAt) ==
  SettleBetWith(st, i, mem, st.wallets[mem.userId], win, failAt)

RECURSIVE SettleLoopGames(_, _, _, _)
SettleLoopGames(st, snapshot, win, failAt) ==
  IF snapshot = <<>> THEN st
  ELSE SettleLoopGames(
         SettleBetGames(st, Head(snapshot), st.bets[Head(snapshot)], win, failAt),
         Tail(snapshot), win, failAt)

\* The per-type breakdown accumulated by the loop (games.ts 829-851, 925-929).
BetDistribution(bs, snapshot, winners) ==
  [t \in GameTypes |->
     LET ofType == {k \in 1..Len(snapshot) : bs[snapshot[k]].betType = t}
         wonOfType == {k \in ofType : snapshot[k] \in winners}
     IN [totalBets |-> Cardinality(ofType),
         totalAmount |-> SumSeq([k \in 1..Len(snapshot) |->
                           IF k \in ofType THEN bs[snapshot[k]].betAmount ELSE 0]),
         winningBets |-> Cardinality(wonOfType),
         winningAmount |-> SumSeq([k \in 1..Len(snapshot) |->
                             IF k \in wonOfType THEN bs[snapshot[k]].potentialWinning ELSE 0])]]

\* new GameResult({...}) (games.ts 973-979)
NewGameResult(g, today) ==
  [gameType |-> g.type, resultDate |-> today, status |-> "pending",
   jodiResult |-> <<>>, harufResult |-> <<>>, crossingResult |-> <<>>,
   totalBets |-> 0, totalBetAmount |-> 0, totalWinningAmount |-> 0,
   platformCommission |-> 0, netProfit |-> 0,
   betDistribution |-> BetDistribution(<<>>, <<>>, {}),
   settled |-> {}]

\* GameResult.findOne({gameId, resultDate: today}) (games.ts 796-802):
\* the index of the first document of that day, 0 when there is none.
FindResult(results, today) ==
  LET matching == {k \in 1..Len(results) : results[k].resultDate = today}
  IN IF matching = {} THEN 0 ELSE CHOOSE k \in matching : \A m \in matching : k <= m

\* The statistics and the GameResult document written after the loop
\* (games.ts 965-1001); settled records the bets the run processed.
FilledGameResult(base, g, req, bs, snapshot, st) ==
  LET totalBetAmount == SumSeq([k \in 1..Len(snapshot) |-> bs[snapshot[k]].betAmount])
      platformCommission == (totalBetAmount * g.commission) \div 100
      netProfit == totalBetAmount - st.totalWinningAmount - platformCommission
  IN [base EXCEPT
        !.jodiResult = IF g.type = "jodi" /\ req.jodiResult # <<>> THEN req.jodiResult ELSE @,
        !.harufResult = IF g.type = "haruf" /\ req.harufResult # <<>> THEN req.harufResult ELSE @,
        !.crossingResult =
           IF g.type = "crossing" /\ req.crossingResult # <<>> THEN req.crossingResult ELSE @,
        !.totalBets = Len(snapshot),
        !.totalBetAmount = totalBetAmount,
        !.totalWinningAmount = st.totalWinningAmount,
        !.platformCommission = platformCommission,
        !.netProfit = netProfit,
        !.betDistribution = BetDistribution(bs, snapshot, st.winners),
        !.status = "declared",
        !.settled = Range(snapshot)]

\* The day a declaration is for (games.ts 793-794): resultDate 0 is none given.
Today(resultDate) == IF resultDate # 0 THEN resultDate ELSE now.day

\* The whole handler after the already-declared check (games.ts 809-1033).
RunDeclareResult(req, today, failAt) ==
  LET snapshot == SetToSeq(PendingBets(bets))
      win == UnifiedWinningNumber(game, req)
      looped == SettleLoopGames(StartRun, snapshot, win, failAt)
      existing == FindResult(gameResults, today)
      base == IF existing # 0 THEN gameResults[existing] ELSE NewGameResult(game, today)
      doc == FilledGameResult(base, game, req, bets, snapshot, looped)
      saved == [looped EXCEPT !.gameResults =
                  IF existing # 0 THEN [@ EXCEPT ![existing] = doc] ELSE Append(@, doc)]
      s4 == Write(looped, failAt, saved)
      updated == [s4 EXCEPT !.game.currentStatus = "result_declared",
                            !.game.lastResultDate = now.day]
  IN Write(s4, failAt, updated)

\* History: the bets a run credited before it aborted are marked, and the
\* bets a run took from pending to won or lost carry the round it was for.
History(st, today) ==
  [i \in 1..Len(st.bets) |->
     [st.bets[i] EXCEPT
        !.abortCredited = @ \/ (st.failed /\ st.bets[i].credits > bets[i].credits),
        !.settledIn = IF st.bets[i].status # bets[i].status THEN today ELSE @]]

\* A result is on record for the round: a declared GameResult of that day,
\* or the game's declaredResult.
ResultOnRecord(today) ==
  \/ \E k \in 1..Len(gameResults) :
       gameResults[k].resultDate = today /\ gameResults[k].status = "declared"
  \/ game.declaredResult # <<>>

Pre ==
  [game |-> game, bets |-> bets, wallets |-> wallets, users |-> users,
   ledger |-> ledger, gameResults |-> gameResults]

\* declareResult (games.ts 773-1038)
DeclareResult ==
  \E req \in DeclareRequests, resultDate \in ResultDates :
  \E failAt \in 0..RunDeclareResult(req, Today(resultDate), 0).writes :
    LET today == Today(resultDate)
        existing == FindResult(gameResults, today)
        already == existing # 0 /\ gameResults[existing].status = "declared"
        final == RunDeclareResult(req, today, failAt)
        outcome == IF already THEN "ResultAlreadyDeclared"
                   ELSE IF final.failed THEN "ServerError"
                   ELSE "ok"
    IN /\ calls < MaxCalls /\ Requests < MaxRequests
       /\ calls' = calls + 1
       /\ IF already
            THEN UNCHANGED <<game, bets, wallets, users, ledger, gameResults>>
            ELSE /\ game' = final.game
                 /\ bets' = History(final, today)
                 /\ wallets' = final.wallets
                 /\ users' = final.users
                 /\ ledger' = final.ledger
                 /\ gameResults' = final.gameResults
       /\ declared' = IF outcome = "ok" THEN declared \cup {today} ELSE declared
       /\ last' = [op |-> "declareResult", outcome |-> outcome, round |-> today,
                   prior |-> today \in declared,
                   at |-> Clock[now.slot], bet |-> NoLast.bet, eval |-> NoEval,
                   summary |-> NoLast.summary,
                   status |-> GameStatus(game, currentMinutes),
                   hadResult |-> ResultOnRecord(today),
                   typeResult |-> UnifiedWinningNumber(game, req),
                   fetched |-> IF already THEN {} ELSE PendingBets(bets),
                   winners |-> IF already THEN {} ELSE final.winners,
                   pre |-> Pre]
       /\ UNCHANGED <<now, adminOps, runs>>

\* ------------------------------------------------------------ POST /api/results/declare/:gameId
\* One iteration of processBetsForResult's loop (results.ts 945-973):
\* Bet.findByIdAndUpdate, then User.findByIdAndUpdate for a winner.
SettleBetRoute(st, i, mem, dr, failAt) ==
  IF st.failed THEN st
  ELSE
    LET isWinning == checkBetWinning(mem, dr)
        amount == mem.potentialWinning
        u == mem.userId
        seen == [st EXCEPT !.bets[i].evals = @ + 1]
        marked == [seen EXCEPT !.bets[i].isWinning = IF isWinning THEN "true" ELSE "false",
                               !.bets[i].resultDeclared = TRUE]
        s1 == Write(seen, failAt, marked)
        paid == [s1 EXCEPT !.users[u].winningBalance = @ + amount,
                           !.users[u].totalWinnings = @ + amount,
                           !.bets[i].credits = @ + 1,
                           !.totalWinningAmount = @ + amount,
                           !.winners = @ \cup {i}]
    IN IF isWinning THEN Write(s1, failAt, paid) ELSE s1

\* processBetsForResult (results.ts 929-989) over Bet.find({gameId}).
RECURSIVE processBetsForResult(_, _, _, _)
processBetsForResult(st, found, dr, failAt) ==
  IF found = <<>> THEN st
  ELSE processBetsForResult(
         SettleBetRoute(st, Head(found), st.bets[Head(found)], dr, failAt),
         Tail(found), dr, failAt)

\* resultToUse (results.ts 492)
ResultToUse(req) ==
  Or(req.jodiResult, Or(req.harufResult, Or(req.crossingResult, req.declaredResult)))

\* resultValue (results.ts 530-539)
ResultValue(g, req) ==
  IF g.type = "jodi" THEN Or(req.jodiResult, ResultToUse(req))
  ELSE IF g.type = "haruf" THEN Or(req.harufResult, ResultToUse(req))
  ELSE IF g.type = "crossing" THEN Or(req.crossingResult, ResultToUse(req))
  ELSE ResultToUse(req)

\* The checks before any write (results.ts 494-546): the response, or "ok".
RouteCheck(req) ==
  IF ResultToUse(req) = <<>> THEN "InvalidResultFormat"
  ELSE IF game.declaredResult # <<>> THEN "ResultAlreadyDeclared"
  ELSE IF game.currentStatus # "closed" THEN "InvalidGameState"
  ELSE IF ResultValue(game, req) = <<>> THEN "InvalidResultFormat"
  ELSE "ok"

\* The per-type record handed to processBetsForResult (results.ts 574-579).
DeclaredResultObj(req) ==
  [jodi |-> req.jodiResult, haruf |-> req.harufResult,
   crossing |-> req.crossingResult, fallback |-> Trim(ResultToUse(req))]

\* The handler after its checks (results.ts 548-578).
RunDeclareRoute(req, failAt) ==
  LET updated == [StartRun EXCEPT !.game.declaredResult = Trim(ResultValue(game, req)),
                                  !.game.currentStatus = "result_declared",
                                  !.game.lastResultDate = now.day]
      dr == DeclaredResultObj(req)
  IN processBetsForResult(Write(StartRun, failAt, updated),
                          [k \in 1..Len(bets) |-> k], dr, failAt)

\* router.post("/declare/:gameId") (results.ts 479-618)
DeclareRoute ==
  \E req \in DeclareRequests :
  \E failAt \in 0..(IF RouteCheck(req) = "ok" THEN RunDeclareRoute(req, 0).writes ELSE 0) :
    LET checked == RouteCheck(req)
        final == RunDeclareRoute(req, failAt)
        outcome == IF checked # "ok" THEN checked
                   ELSE IF final.failed THEN "ServerError"
                   ELSE "ok"
    IN /\ calls < MaxCalls /\ Requests < MaxRequests
       /\ calls' = calls + 1
       /\ IF checked # "ok"
            THEN UNCHANGED <<game, bets, wallets, users, ledger, gameResults>>
            ELSE /\ game' = final.game
                 /\ bets' = History(final, now.day)
                 /\ wallets' = final.wallets
                 /\ users' = final.users
                 /\ ledger' = final.ledger
                 /\ gameResults' = final.gameResults
       /\ declared' = IF outcome = "ok" THEN declared \cup {now.day} ELSE declared
       /\ last' = [op |-> "declareRoute", outcome |-> outcome, round |-> now.day,
                   prior |-> now.day \in declared,
                   at |-> Clock[now.slot], bet |-> NoLast.bet, eval |-> NoEval,
                   summary |-> NoLast.summary,
                   status |-> GameStatus(game, currentMinutes),
                   hadResult |-> ResultOnRecord(now.day),
                   typeResult |-> UnifiedWinningNumber(game, req),
                   fetched |-> IF checked # "ok" THEN {} ELSE 1..Len(bets),
                   winners |-> IF checked # "ok" THEN {} ELSE final.winners,
                   pre |-> Pre]
       /\ UNCHANGED <<now, adminOps, runs>>

\* ------------------------------------------------------------ declareResult, step by step
\* The handler awaits every database call, so requests in flight interleave
\* between the calls. A request takes four kinds of step here, each a run of
\* consecutive awaits of the handler: the already-declared check with
\* Bet.find (games.ts 796-813), the read of a winner's wallet (931), the
\* writes of one iteration of the bet loop (932-962), and the two saves after
\* the loop (965-1006).
Begin ==
  \E p \in Procs, req \in DeclareRequests :
    LET today == Today(0)
        existing == FindResult(gameResults, today)
        already == existing # 0 /\ gameResults[existing].status = "declared"
        snapshot == SetToSeq(PendingBets(bets))
    IN /\ runs[p].pc = "idle"
       /\ calls < MaxCalls /\ Requests < MaxRequests
       /\ calls' = calls + 1
       /\ runs' = [runs EXCEPT ![p] =
            IF already
              THEN [@ EXCEPT !.pc = "done", !.today = today, !.req = req,
                             !.outcome = "ResultAlreadyDeclared"]
              ELSE [@ EXCEPT !.pc = IF snapshot = <<>> THEN "save" ELSE "loop",
                             !.today = today, !.req = req, !.existing = existing,
                             !.snapshot = snapshot, !.mem = bets]]
       /\ UNCHANGED <<game, now, bets, wallets, users, ledger, gameResults, adminOps,
                      declared, last>>

\* The collections and one request's accumulators, as a handler run.
RunOf(r) ==
  [StartRun EXCEPT !.totalWinningAmount = r.totalWinningAmount, !.winners = r.winners]

\* Wallet.findOne for the winner the loop is at (games.ts 931).
FindWallet ==
  \E p \in Procs :
    LET r == runs[p]
        i == r.snapshot[r.pos]
    IN /\ r.pc = "loop"
       /\ IsWinnerGames(r.mem[i], UnifiedWinningNumber(game, r.req))
       /\ runs' = [runs EXCEPT ![p] =
            [@ EXCEPT !.pc = "credit", !.wallet = wallets[r.mem[i].userId]]]
       /\ UNCHANGED <<game, now, bets, wallets, users, ledger, gameResults, calls,
                      adminOps, declared, last>>

\* The writes of one iteration of the bet loop (games.ts 932-962): of a
\* winner once its wallet has been read, of a loser at once.
SettleStep ==
  \E p \in Procs :
    LET r == runs[p]
        i == r.snapshot[r.pos]
        win == UnifiedWinningNumber(game, r.req)
        st == SettleBetWith(RunOf(r), i, r.mem[i], r.wallet, win, 0)
    IN /\ \/ r.pc = "credit"
          \/ r.pc = "loop" /\ ~IsWinnerGames(r.mem[i], win)
       /\ bets' = History(st, r.today)
       /\ wallets' = st.wallets
       /\ ledger' = st.ledger
       /\ runs' = [runs EXCEPT ![p] =
            [@ EXCEPT !.pc = IF r.pos = Len(r.snapshot) THEN "save" ELSE "loop",
                      !.pos = r.pos + 1,
                      !.totalWinningAmount = st.totalWinningAmount,
                      !.winners = st.winners]]
       /\ UNCHANGED <<game, now, users, gameResults, calls, adminOps, declared, last>>

Finish ==
  \E p \in Procs :
    LET r == runs[p]
        base == IF r.existing # 0 THEN gameResults[r.existing]
                ELSE NewGameResult(game, r.today)
        doc == FilledGameResult(base, game, r.req, r.mem, r.snapshot, RunOf(r))
    IN /\ r.pc = "save"
       /\ gameResults' = IF r.existing # 0 THEN [gameResults EXCEPT ![r.existing] = doc]
                         ELSE Append(gameResults, doc)
       /\ game' = [game EXCEPT !.currentStatus = "result_declared",
                               !.lastResultDate = now.day]
       /\ runs' = [runs EXCEPT ![p] = [@ EXCEPT !.pc = "done", !.outcome = "ok"]]
       /\ UNCHANGED <<now, bets, wallets, users, ledger, calls, adminOps, declared, last>>

Next ==
  \/ Tick
  \/ PlaceBet
  \/ UpdateGame
  \/ UpdatePayouts
  \/ ForceGameStatus
  \/ DeclareResult
  \/ DeclareRoute

Spec == Init /\ [][Next]_vars

\* ------------------------------------------------------------ status requests
\* Times an admin gives a game: the schema accepts an hour of one digit, and
\* no order between the three times is required (Game.ts 77-91).
StatusTimes ==
  { <<"9", ":", "3", "0">>,
    <<"1", "0", ":", "0", "0">>,
    <<"1", "5", ":", "0", "0">>,
    <<"2", "0", ":", "0", "0">>,
    <<"0", "3", ":", "0", "0">>,
    <<"0", "3", ":", "3", "0">> }

\* The readings of the server's clock, toTimeString().slice(0, 5), at the
\* instants requests arrive, in the order of the day.
StatusClock ==
  << <<"0", "2", ":", "0", "0">>,
     <<"0", "3", ":", "0", "0">>,
     <<"0", "3", ":", "1", "5">>,
     <<"0", "3", ":", "3", "0">>,
     <<"0", "3", ":", "4", "5">>,
     <<"0", "9", ":", "3", "0">>,
     <<"0", "9", ":", "4", "5">>,
     <<"1", "0", ":", "0", "0">>,
     <<"1", "2", ":", "0", "0">>,
     <<"1", "5", ":", "0", "0">>,
     <<"1", "9", ":", "0", "0">>,
     <<"2", "0", ":", "0", "0">>,
     <<"2", "3", ":", "3", "0">> >>

\* Statuses an admin may send to forceGameStatus, and one that is none.
StatusInputs == Statuses \cup {"paused"}

\* The reading of the clock in the specifications of status requests.
clockReading == StatusClock[now.slot]

\* A game with any times, forced to a status or not.
InitStatus ==
  /\ \E startTime \in StatusTimes, endTime \in StatusTimes, resultTime \in StatusTimes,
        forcedStatus \in {None} \cup Statuses :
       game = [NewGame("jodi") EXCEPT !.startTime = startTime, !.endTime = endTime,
                                     !.resultTime = resultTime,
                                     !.forcedStatus = forcedStatus]
  /\ InitCollections

\* Time passes to the next reading.
TickStatus ==
  /\ now.slot < Len(StatusClock)
  /\ now' = [now EXCEPT !.slot = now.slot + 1]
  /\ last' = NoLast
  /\ UNCHANGED <<game, bets, wallets, users, ledger, gameResults, calls, adminOps, declared, runs>>

\* getAllGames (games.ts 13-102): the status listed for the game.
GetAllGames ==
  /\ last' = [NoLast EXCEPT !.op = "getAllGames", !.outcome = "ok", !.at = clockReading,
                            !.status = IF game.isActive
                                         THEN ListingStatus(game, clockReading) ELSE None]
  /\ UNCHANGED <<game, now, bets, wallets, users, ledger, gameResults, calls, adminOps, declared, runs>>

\* getGameById (games.ts 105-163): the status returned for the game.
GetGameById ==
  /\ last' = [NoLast EXCEPT !.op = "getGameById", !.at = clockReading,
                            !.outcome = IF game.isActive THEN "ok" ELSE "NotFound",
                            !.status = IF game.isActive
                                         THEN LookupStatus(game, clockReading) ELSE None]
  /\ UNCHANGED <<game, now, bets, wallets, users, ledger, gameResults, calls, adminOps, declared, runs>>

\* placeBet (games.ts 166-477), its request and response put on record: the
\* status is the one its guard evaluated, if it got that far. A request that
\* is rejected makes no write that could throw.
PlaceBetRecorded(us, reqs, amounts, failures) ==
  \E u \in us, req \in reqs, betAmount \in amounts :
  \E failAt \in IF PlaceBetOutcome(u, req, betAmount, clockReading) = "ok"
                  THEN failures ELSE {0} :
    LET res == placeBet(u, req, betAmount, clockReading, failAt)
    IN /\ Len(bets) < MaxBets /\ Requests < MaxRequests
       /\ ledger' = res.st.ledger
       /\ bets' = res.st.bets
       /\ wallets' = res.st.wallets
       /\ last' = [NoLast EXCEPT !.op = "placeBet", !.outcome = res.outcome,
                                 !.at = clockReading,
                                 !.status = IF betAmount > 0 /\ game.isActive
                                              THEN GameStatus(game, timeToMinutes(clockReading))
                                              ELSE None,
                                 !.bet = [userId |-> u, betType |-> req.betType,
                                          betAmount |-> betAmount, failAt |-> failAt],
                                 !.pre = Pre]
       /\ UNCHANGED <<game, now, users, gameResults, calls, adminOps, declared, runs>>

\* A player's bet of 100 on "12".
PlaceBetAtStatus ==
  PlaceBetRecorded({"u1"}, {req \in BetRequests : req.betType = "jodi"}, {100}, {0})

ForceAnyStatus == forceGameStatus(StatusInputs)

NextStatus ==
  \/ TickStatus
  \/ GetAllGames
  \/ GetGameById
  \/ PlaceBetAtStatus
  \/ ForceAnyStatus

SpecStatus == InitStatus /\ [][NextStatus]_vars

\* Bets are placed and declareResult requests are handled step by step.
NextConc ==
  \/ PlaceBet
  \/ Begin
  \/ FindWallet
  \/ SettleStep
  \/ Finish

SpecConc == Init /\ [][NextConc]_vars

\* ------------------------------------------------------------ bets
\* Amounts a player may send: negative, none, below the game's minimum,
\* within its limits, above its maximum.
WideBetAmounts == {0 - 10, 0, 5, 100, 150, DefaultMaxBet + 1}

\* A game of the default times, active or not, forced open or closed or not
\* forced.
InitBet ==
  /\ \E isActive \in BOOLEAN, forcedStatus \in {None, "open", "closed"} :
       game = [NewGame("jodi") EXCEPT !.isActive = isActive,
                                     !.forcedStatus = forcedStatus]
  /\ InitCollections

\* A player's request to place a bet.
PlaceBetRequest == PlaceBetRecorded(Users, BetRequests, WideBetAmounts, BetFailures)

NextBet ==
  \/ TickStatus
  \/ PlaceBetRequest

SpecBet == InitBet /\ [][NextBet]_vars

\* ------------------------------------------------------------ the Wager Evaluator
\* Bets as placeBet stores them: a jodi bet; haruf bets with a position tag,
\* with a bare digit and no tag, with a letter and a digit and no tag;
\* crossing bets; a bet of a type that is none.
EvalBetRequests ==
  { [betType |-> "jodi", betNumber |-> <<"1", "4">>, harufPosition |-> None, harufDigit |-> <<>>],
    [betType |-> "haruf", betNumber |-> <<"1">>, harufPosition |-> "first", harufDigit |-> <<"1">>],
    [betType |-> "haruf", betNumber |-> <<"4">>, harufPosition |-> "first", harufDigit |-> <<"4">>],
    [betType |-> "haruf", betNumber |-> <<"4">>, harufPosition |-> "last", harufDigit |-> <<"4">>],
    [betType |-> "haruf", betNumber |-> <<"3">>, harufPosition |-> "last", harufDigit |-> <<"3">>],
    [betType |-> "haruf", betNumber |-> <<"4">>, harufPosition |-> None, harufDigit |-> <<>>],
    [betType |-> "haruf", betNumber |-> <<"A", "1">>, harufPosition |-> None, harufDigit |-> <<>>],
    [betType |-> "crossing", betNumber |-> <<"1", "2">>, harufPosition |-> None, harufDigit |-> <<>>],
    [betType |-> "crossing", betNumber |-> <<"2", "1">>, harufPosition |-> None, harufDigit |-> <<>>],
    [betType |-> "crossing", betNumber |-> <<"1", "1">>, harufPosition |-> None, harufDigit |-> <<>>],
    [betType |-> "patti", betNumber |-> <<"1", "4">>, harufPosition |-> None, harufDigit |-> <<>>] }

\* Results an admin may declare: of two digits, of three, of one.
EvalResults == { <<"1", "4">>, <<"1", "2", "3">>, <<"4">> }

\* Declaration requests: no field, or one field, carries a result.
EvalRequests ==
  { r \in [jodiResult : EvalResults \cup {<<>>}, harufResult : EvalResults \cup {<<>>},
           crossingResult : EvalResults \cup {<<>>}, declaredResult : EvalResults \cup {<<>>}] :
      Cardinality({f \in DOMAIN r : r[f] # <<>>}) <= 1 }

\* The cases of testHarufLogic (results.ts 1084-1091).
TestCases ==
  << [number |-> <<"A", "1">>, position |-> "andhar", declaredResult |-> <<"1", "4">>, shouldWin |-> "true"],
     [number |-> <<"B", "4">>, position |-> "bahar", declaredResult |-> <<"1", "4">>, shouldWin |-> "true"],
     [number |-> <<"A", "5">>, position |-> "andhar", declaredResult |-> <<"1", "4">>, shouldWin |-> "false"],
     [number |-> <<"B", "2">>, position |-> "bahar", declaredResult |-> <<"1", "4">>, shouldWin |-> "false"],
     [number |-> <<"A", "1">>, position |-> "bahar", declaredResult |-> <<"1", "4">>, shouldWin |-> "false"],
     [number |-> <<"B", "4">>, position |-> "andhar", declaredResult |-> <<"1", "4">>, shouldWin |-> "false"] >>

\* A game of the bet's type, or a jodi game for a bet of no type, holds one
\* bet; a declaration request is at hand.
InitEval ==
  /\ \E bet \in EvalBetRequests, req \in EvalRequests :
       /\ game = NewGame(IF bet.betType \in GameTypes THEN bet.betType ELSE "jodi")
       /\ now = [day |-> 1, slot |-> 1]
       /\ bets = <<NewBet("u1", bet, 100, 1)>>
       /\ last = [NoLast EXCEPT !.op = "evaluate", !.eval.req = req]
  /\ wallets = [u \in Users |-> [NewWallet EXCEPT !.depositBalance = InitialDeposit]]
  /\ users = [u \in Users |-> [winningBalance |-> 0, totalWinnings |-> 0]]
  /\ ledger = <<>>
  /\ gameResults = <<>>
  /\ calls = 0
  /\ adminOps = 0
  /\ declared = {}
  /\ runs = [p \in Procs |-> IdleRun]

\* The verdict as a value of the record.
Verdict(b) == IF b THEN "true" ELSE "false"

\* The winner check of declareResult (games.ts 855-916) on the bet.
EvaluateGames ==
  /\ last' = [last EXCEPT !.eval.isWinner =
                 Verdict(IsWinnerGames(bets[1], UnifiedWinningNumber(game, last.eval.req)))]
  /\ UNCHANGED <<game, now, bets, wallets, users, ledger, gameResults, calls, adminOps, declared, runs>>

\* checkBetWinning as processBetsForResult calls it (results.ts 946).
EvaluateRoute ==
  /\ last' = [last EXCEPT !.eval.isWinning =
                 CheckBetWinningOn(bets[1], AsRecord(DeclaredResultObj(last.eval.req)))]
  /\ UNCHANGED <<game, now, bets, wallets, users, ledger, gameResults, calls, adminOps, declared, runs>>

\* checkBetWinning as the user-bets summary calls it (results.ts 871-891), on
\* the string the declaration stores in game.declaredResult; "null" when none
\* is stored.
EvaluateSummary ==
  LET declaredResult == Trim(ResultValue(game, last.eval.req))
  IN /\ last' = [last EXCEPT !.eval.summary =
                    IF declaredResult = <<>> THEN "null"
                    ELSE CheckBetWinningOn(bets[1], AsString(declaredResult))]
     /\ UNCHANGED <<game, now, bets, wallets, users, ledger, gameResults, calls, adminOps, declared, runs>>

\* testHarufLogic (results.ts 1081-1124): the number of cases it counts as
\* passed.
TestHarufLogic ==
  /\ last' = [last EXCEPT !.eval.tested = TRUE, !.eval.passed =
       Cardinality({k \in 1..Len(TestCases) :
         CheckBetWinningOn([number |-> TestCases[k].number,
                            position |-> TestCases[k].position,
                            betType |-> "haruf"],
                           AsString(TestCases[k].declaredResult))
           = TestCases[k].shouldWin})]
  /\ UNCHANGED <<game, now, bets, wallets, users, ledger, gameResults, calls, adminOps, declared, runs>>

NextEval ==
  \/ EvaluateGames
  \/ EvaluateRoute
  \/ EvaluateSummary
  \/ TestHarufLogic

SpecEval == InitEval /\ [][NextEval]_vars

\* ------------------------------------------------------------ the user-bets summary
\* router.get("/user-bets/:gameId") (results.ts 847-924): for each bet of the
\* player, isWinning by checkBetWinning on the stored game.declaredResult, or
\* null when none is stored; the response is 500 when the evaluation throws.
GetUserBets ==
  \E u \in Users :
    LET isWinning ==
          [i \in 1..Len(bets) |->
             IF bets[i].userId # u THEN None
             ELSE IF game.declaredResult = <<>> THEN "null"
             ELSE CheckBetWinningOn(bets[i], AsString(game.declaredResult))]
        thrown == \E i \in 1..Len(bets) : isWinning[i] = "TypeError"
        totalWinAmount ==
          SumSeq([i \in 1..Len(bets) |->
                    IF isWinning[i] = "true" THEN bets[i].potentialWinning ELSE 0])
    IN /\ last' = [NoLast EXCEPT !.op = "userBets",
                                 !.outcome = IF thrown THEN "ServerError" ELSE "ok",
                                 !.bet.userId = u,
                                 !.summary = [isWinning |-> isWinning,
                                              totalWinAmount |-> totalWinAmount]]
       /\ UNCHANGED <<game, now, bets, wallets, users, ledger, gameResults, calls,
                      adminOps, declared, runs>>

\* Bets, declarations on either endpoint, and the players' summaries, all
\* within the betting window.
NextSummary ==
  \/ PlaceBet
  \/ UpdateGame
  \/ DeclareResult
  \/ DeclareRoute
  \/ GetUserBets

SpecSummary == Init /\ [][NextSummary]_vars

\* ------------------------------------------------------------ betting limits
\* Limits an admin may send.
MinBetInputs == {0, 10, MinBetCap, MinBetCap + 1000}
MaxBetInputs == {5, DefaultMaxBet}

\* Bodies carrying both limits, only minBet, only maxBet.
LimitBodies ==
  { [minBet |-> a, maxBet |-> b] : a \in MinBetInputs, b \in MaxBetInputs }
  \cup { [minBet |-> a] : a \in MinBetInputs }
  \cup { [maxBet |-> b] : b \in MaxBetInputs }

\* Requests on the limits handled in one run.
MaxLimitOps == 3

\* createGame (games.ts 575-604): new Game({...req.body}) and save(), which
\* runs the schema's validators. The game followed from here on is the one
\* created.
CreateGame ==
  \E body \in LimitBodies, t \in GameTypes :
    LET outcome == IF LimitsValid(body) THEN "ok" ELSE "ValidationError"
    IN /\ adminOps < MaxLimitOps
       /\ adminOps' = adminOps + 1
       /\ game' = IF outcome = "ok" THEN WithBody(NewGame(t), body) ELSE game
       /\ last' = [NoLast EXCEPT !.op = "createGame", !.outcome = outcome, !.pre = Pre]
       /\ UNCHANGED <<now, bets, wallets, users, ledger, gameResults, calls, declared, runs>>

\* updateGame (games.ts 635-689) with limits in the body.
UpdateLimits ==
  \E body \in LimitBodies :
    LET outcome == UpdateGameOutcome(body)
    IN /\ adminOps < MaxLimitOps
       /\ adminOps' = adminOps + 1
       /\ game' = IF outcome = "ok" THEN WithBody(game, body) ELSE game
       /\ last' = [NoLast EXCEPT !.op = "updateGame", !.outcome = outcome, !.pre = Pre]
       /\ UNCHANGED <<now, bets, wallets, users, ledger, gameResults, calls, declared, runs>>

NextLimits ==
  \/ CreateGame
  \/ UpdateLimits

SpecLimits == Init /\ [][NextLimits]_vars

\* ------------------------------------------------------------ properties
\* A declaration request has been handled.
Declared == last.op \in {"declareResult", "declareRoute"}

\* The last declaration request left every collection as it found it.
NothingMutated ==
  /\ game = last.pre.game
  /\ bets = last.pre.bets
  /\ wallets = last.pre.wallets
  /\ users = last.pre.users
  /\ ledger = last.pre.ledger
  /\ gameResults = last.pre.gameResults

\* The sum of field f over the bets S.
SumOverBets(S, f) ==
  SumSeq([k \in 1..Len(bets) |-> IF k \in S THEN bets[k][f] ELSE 0])

\* C1: a declaration request that carries a result for the game's type, for a
\* round that an earlier request on either endpoint has declared, is not
\* accepted, changes no bet and credits no wallet. (The claim also names the
\* error, ResultAlreadyDeclared; a run that violates this violates the claim
\* whatever the error is called.)
SecondDeclareRejected ==
  (Declared /\ last.prior /\ last.typeResult # <<>>) =>
    /\ last.outcome # "ok"
    /\ bets = last.pre.bets
    /\ wallets = last.pre.wallets
    /\ users = last.pre.users

\* C2: with declareResult requests for the same game and round in flight
\* together, no bet is evaluated more than once and no bet is credited more
\* than once.
NoBetSettledTwice ==
  \A i \in 1..Len(bets) : bets[i].evals <= 1 /\ bets[i].credits <= 1

\* C3: a declaration request leaves every bet that was not pending when it
\* arrived as it was: not evaluated again, no field modified, not credited.
OnlyPendingBetsProcessed ==
  Declared =>
    \A i \in 1..Len(last.pre.bets) :
      last.pre.bets[i].status # "pending" => bets[i] = last.pre.bets[i]

\* The "win" ledger transactions the last declaration created for bet i.
WinTransactions(i) ==
  {k \in (Len(last.pre.ledger) + 1)..Len(ledger) :
     ledger[k].type = "win" /\ ledger[k].bet = i}

\* C4: after a successful declaration, every bet it found to be a winner has
\* status won and winningAmount equal to its potentialWinning, exactly one
\* "win" ledger transaction of that amount was created for it, and each
\* owner's Wallet winningBalance and totalWinnings grew by exactly the sum of
\* the potentialWinning of the winners they own.
WinnerSettled ==
  (Declared /\ last.outcome = "ok") =>
    /\ \A i \in last.winners :
         /\ bets[i].status = "won"
         /\ bets[i].winningAmount = bets[i].potentialWinning
         /\ Cardinality(WinTransactions(i)) = 1
         /\ \A k \in WinTransactions(i) : ledger[k].amount = bets[i].potentialWinning
    /\ \A u \in Users :
         LET won == SumOverBets({i \in last.winners : bets[i].userId = u}, "potentialWinning")
         IN /\ wallets[u].winningBalance = last.pre.wallets[u].winningBalance + won
            /\ wallets[u].totalWinnings = last.pre.wallets[u].totalWinnings + won

\* The last declaration marked the game or a GameResult as result declared.
MarkedDeclared ==
  \/ game.declaredResult # last.pre.game.declaredResult
  \/ game.currentStatus = "result_declared"
       /\ last.pre.game.currentStatus # "result_declared"
  \/ \E k \in 1..Len(gameResults) :
       /\ gameResults[k].status = "declared"
       /\ k <= Len(last.pre.gameResults) => last.pre.gameResults[k].status # "declared"

\* C5: a declaration that fails does not leave the game or a GameResult
\* marked as result declared while a bet that was pending when it started has
\* not been processed.
FailedDeclareLeavesNoResult ==
  (Declared /\ last.outcome = "ServerError" /\ MarkedDeclared) =>
    \A i \in PendingBets(last.pre.bets) :
      bets[i].status # "pending" \/ bets[i].resultDeclared

\* C6: a declaration request credits no bet that a run which then aborted had
\* already credited.
RetryCreditsNoBetTwice ==
  Declared =>
    \A i \in 1..Len(last.pre.bets) :
      last.pre.bets[i].abortCredited => bets[i].credits = last.pre.bets[i].credits

\* C7: a declaration request carrying a result for the game's type, for a
\* round with no result on record, is not rejected with InvalidGameState when
\* the Clock/Window Evaluator's status is closed, and for any other status it
\* is rejected with InvalidGameState and mutates nothing.
DeclareOnlyWhenClosed ==
  (Declared /\ last.typeResult # <<>> /\ ~last.hadResult) =>
    IF last.status = "closed"
      THEN last.outcome # "InvalidGameState"
      ELSE last.outcome = "InvalidGameState" /\ NothingMutated

\* C8: a declaration request with no result value for the game's type, for a
\* closed game with no result on record, fails with InvalidResultFormat and
\* mutates nothing.
EmptyResultRejected ==
  (Declared /\ last.typeResult = <<>> /\ last.status = "closed" /\ ~last.hadResult) =>
    /\ last.outcome = "InvalidResultFormat"
    /\ NothingMutated

\* C9: after a successful declareResult the round's GameResult has
\* totalBetAmount equal to the sum of betAmount over the bets settled in that
\* round, totalWinningAmount equal to the sum of winningAmount over those that
\* became won, platformCommission = totalBetAmount * commission / 100 and
\* netProfit = totalBetAmount - totalWinningAmount - platformCommission.
GameResultTotals ==
  (last.op = "declareResult" /\ last.outcome = "ok") =>
    LET doc == gameResults[FindResult(gameResults, last.round)]
        settled == {i \in 1..Len(bets) : bets[i].settledIn = last.round}
        won == {i \in settled : bets[i].status = "won"}
    IN /\ doc.totalBetAmount = SumOverBets(settled, "betAmount")
       /\ doc.totalWinningAmount = SumOverBets(won, "winningAmount")
       /\ doc.platformCommission * 100 = doc.totalBetAmount * game.commission
       /\ doc.netProfit = doc.totalBetAmount - doc.totalWinningAmount - doc.platformCommission

\* C10: every bet's potentialWinning is its stake times the multiplier of its
\* type at placement, whatever the game's multipliers are now; a won bet's
\* winningAmount and every "win" ledger transaction carry that amount, and
\* each owner's winnings are the sum of that amount over the credits made.
PotentialWinningFrozen ==
  /\ \A i \in 1..Len(bets) :
       /\ bets[i].potentialWinning = bets[i].betAmount * bets[i].placedMultiplier
       /\ bets[i].status = "won" =>
            bets[i].winningAmount = bets[i].betAmount * bets[i].placedMultiplier
  /\ \A k \in 1..Len(ledger) :
       ledger[k].type = "win" =>
         ledger[k].amount = bets[ledger[k].bet].betAmount * bets[ledger[k].bet].placedMultiplier
  /\ \A u \in Users :
       wallets[u].winningBalance + users[u].winningBalance =
         SumSeq([i \in 1..Len(bets) |->
                   IF bets[i].userId = u
                     THEN bets[i].credits * bets[i].betAmount * bets[i].placedMultiplier
                     ELSE 0])

\* A bet was credited by declareResult after the game's multiplier for its
\* type had been changed from the one it was placed under.
CreditedAfterPayoutChange ==
  \E i \in 1..Len(bets) :
    /\ bets[i].status = "won"
    /\ bets[i].credits >= 1
    /\ wallets[bets[i].userId].winningBalance > 0
    /\ Multiplier(game, bets[i].betType) # bets[i].placedMultiplier

\* ------------------------------------------------------------ properties of status requests
\* The requests that evaluate the game's status, and those that do it by
\* minutes of the day.
StatusOps == {"getAllGames", "getGameById", "placeBet"}
WindowOps == {"getAllGames", "placeBet"}

\* The minute of the day of the request on record and of the game's times.
AtMinutes == timeToMinutes(last.at)
StartMinutes == timeToMinutes(game.startTime)
EndMinutes == timeToMinutes(game.endTime)
ResultMinutes == timeToMinutes(game.resultTime)

\* The request on record evaluated the status of the game, active and not
\* forced, by minutes of the day.
WindowEvaluated == last.op \in WindowOps /\ game.isActive /\ game.forcedStatus = None

\* C16: for an active game with a forced status, the status returned by the
\* listing, by the lookup and by placeBet's guard is the forced status,
\* whatever the clock reads and whatever the game's times are, also after
\* forceGameStatus has set it.
ForcedStatusWins ==
  (last.op \in StatusOps /\ game.isActive /\ game.forcedStatus # None) =>
    last.status = game.forcedStatus

\* forceGameStatus has forced the game open at an instant its times make it
\* closed, and placeBet's guard found it open.
ForcedAgainstTheClock ==
  /\ last.op = "placeBet"
  /\ adminOps = 1
  /\ game.forcedStatus = "open"
  /\ TimeStatus(game, AtMinutes) = "closed"
  /\ last.status = "open"

\* C17 as stated: for a same-day game, not forced, the status is open iff
\* start <= current < end, closed iff end <= current < result,
\* result_declared iff current >= result, waiting otherwise; it is open at the
\* start and closed at the end.
SameDayWindowsAsStated ==
  (WindowEvaluated /\ EndMinutes > StartMinutes) =>
    LET open == StartMinutes <= AtMinutes /\ AtMinutes < EndMinutes
        closed == EndMinutes <= AtMinutes /\ AtMinutes < ResultMinutes
        result == AtMinutes >= ResultMinutes
    IN /\ (last.status = "open") <=> open
       /\ (last.status = "closed") <=> closed
       /\ (last.status = "result_declared") <=> result
       /\ (last.status = "waiting") <=> ~(open \/ closed \/ result)
       /\ AtMinutes = StartMinutes => last.status = "open"
       /\ AtMinutes = EndMinutes => last.status = "closed"

\* C17, amended: for a same-day game, not forced, the status is open iff
\* start <= current < end, closed iff end <= current < result,
\* result_declared iff current >= result outside the open window, waiting
\* otherwise; it is open at the start, and at the end it is closed when the
\* result time is later than the end and result_declared when it is not.
SameDayWindows ==
  (WindowEvaluated /\ EndMinutes > StartMinutes) =>
    LET open == StartMinutes <= AtMinutes /\ AtMinutes < EndMinutes
        closed == EndMinutes <= AtMinutes /\ AtMinutes < ResultMinutes
        result == AtMinutes >= ResultMinutes /\ ~open
    IN /\ (last.status = "open") <=> open
       /\ (last.status = "closed") <=> closed
       /\ (last.status = "result_declared") <=> result
       /\ (last.status = "waiting") <=> ~(open \/ closed \/ result)
       /\ AtMinutes = StartMinutes => last.status = "open"
       /\ AtMinutes = EndMinutes =>
            last.status = IF ResultMinutes > EndMinutes THEN "closed" ELSE "result_declared"

\* The listing evaluated a same-day game at its end time, its result time
\* being earlier, and found the result declared.
SameDayEndAfterResult ==
  /\ WindowEvaluated
  /\ last.op = "getAllGames"
  /\ EndMinutes > StartMinutes
  /\ ResultMinutes < EndMinutes
  /\ AtMinutes = EndMinutes
  /\ last.status = "result_declared"

\* The game that opens at 20:00 and closes at 03:00, result at 03:30.
NightGame ==
  /\ game.startTime = <<"2", "0", ":", "0", "0">>
  /\ game.endTime = <<"0", "3", ":", "0", "0">>
  /\ game.resultTime = <<"0", "3", ":", "3", "0">>

\* C18 as stated: the game 20:00 / 03:00 / 03:30, not forced, is open at
\* 23:30, closed at 03:15, result_declared at 03:45 and waiting at 19:00.
NightGameAsStated ==
  (WindowEvaluated /\ NightGame) =>
    /\ last.at = <<"2", "3", ":", "3", "0">> => last.status = "open"
    /\ last.at = <<"0", "3", ":", "1", "5">> => last.status = "closed"
    /\ last.at = <<"0", "3", ":", "4", "5">> => last.status = "result_declared"
    /\ last.at = <<"1", "9", ":", "0", "0">> => last.status = "waiting"

\* C18, amended: the game 20:00 / 03:00 / 03:30, not forced, is open at
\* 23:30, closed at 03:15, result_declared at 03:45 and still result_declared
\* at 19:00.
NightGameStatuses ==
  (WindowEvaluated /\ NightGame) =>
    /\ last.at = <<"2", "3", ":", "3", "0">> => last.status = "open"
    /\ last.at = <<"0", "3", ":", "1", "5">> => last.status = "closed"
    /\ last.at = <<"0", "3", ":", "4", "5">> => last.status = "result_declared"
    /\ last.at = <<"1", "9", ":", "0", "0">> => last.status = "result_declared"

\* The listing evaluated the game 20:00 / 03:00 / 03:30 at 19:00.
NightGameAtSeven ==
  /\ WindowEvaluated
  /\ NightGame
  /\ last.op = "getAllGames"
  /\ last.at = <<"1", "9", ":", "0", "0">>
  /\ last.status = "result_declared"

\* C19 as stated: for a cross-midnight game, not forced, whose result time is
\* not after its end time, the returned status is closed iff
\* end <= current < 1440 or 0 <= current < result, and result_declared iff
\* result <= current < start.
CrossDayEarlyResultAsStated ==
  (WindowEvaluated /\ EndMinutes <= StartMinutes /\ ResultMinutes <= EndMinutes) =>
    /\ (last.status = "closed") <=>
         \/ EndMinutes <= AtMinutes /\ AtMinutes < MinutesPerDay
         \/ 0 <= AtMinutes /\ AtMinutes < ResultMinutes
    /\ (last.status = "result_declared") <=>
         (ResultMinutes <= AtMinutes /\ AtMinutes < StartMinutes)

\* C19, amended: for a cross-midnight game, not forced, whose result time is
\* not after its end time, the returned status is open iff current >= start
\* or current < end, closed iff end <= current < start, and never
\* result_declared or waiting.
CrossDayEarlyResult ==
  (WindowEvaluated /\ EndMinutes <= StartMinutes /\ ResultMinutes <= EndMinutes) =>
    /\ (last.status = "open") <=> (AtMinutes >= StartMinutes \/ AtMinutes < EndMinutes)
    /\ (last.status = "closed") <=> (EndMinutes <= AtMinutes /\ AtMinutes < StartMinutes)
    /\ last.status \notin {"result_declared", "waiting"}

\* placeBet's guard evaluated a cross-midnight game whose result time is
\* before its end time, between the two, and found it open.
CrossDayOpenAfterResult ==
  /\ WindowEvaluated
  /\ last.op = "placeBet"
  /\ EndMinutes < StartMinutes
  /\ ResultMinutes <= AtMinutes
  /\ AtMinutes < EndMinutes
  /\ last.status = "open"

\* C20: the status getGameById returns is the status getAllGames lists and
\* the status placeBet's guard computes, for every game and every reading of
\* the clock.
LookupAgrees ==
  (last.op = "getGameById" /\ game.isActive) =>
    /\ last.status = ListingStatus(game, last.at)
    /\ last.status = GameStatus(game, AtMinutes)

\* ------------------------------------------------------------ properties of placeBet
\* The "bet" ledger transactions of bet i.
BetTransactions(i) ==
  {k \in 1..Len(ledger) : ledger[k].type = "bet" /\ ledger[k].bet = i}

\* C11: after any number of placeBet requests, failed at any write or not,
\* every bet has exactly one "bet" ledger transaction, of its amount and its
\* player, no "bet" transaction is without its bet, and each wallet's
\* totalBets, and what has left its depositBalance, is the sum of the amounts
\* of its player's bets.
BetAllOrNothing ==
  /\ \A i \in 1..Len(bets) :
       /\ Cardinality(BetTransactions(i)) = 1
       /\ \A k \in BetTransactions(i) :
            /\ ledger[k].amount = bets[i].betAmount
            /\ ledger[k].userId = bets[i].userId
            /\ bets[i].deductionTransactionId = k
  /\ \A k \in 1..Len(ledger) :
       ledger[k].type = "bet" => ledger[k].bet \in 1..Len(bets)
  /\ \A u \in Users :
       /\ wallets[u].totalBets =
            SumSeq([i \in 1..Len(bets) |->
                      IF bets[i].userId = u THEN bets[i].betAmount ELSE 0])
       /\ wallets[u].depositBalance = InitialDeposit - wallets[u].totalBets

\* A player with a bet placed made a second request, whose wallet save threw
\* after its transaction and its bet had been created: nothing of it is left.
BetRolledBack ==
  /\ last.op = "placeBet"
  /\ last.outcome = "ServerError"
  /\ last.bet.failAt = 3
  /\ Len(bets) = 1
  /\ bets[1].userId = last.bet.userId
  /\ Len(ledger) = 1

\* The status of the game at the request on record, by the evaluator.
StatusAtRequest ==
  IF ~game.isActive THEN "waiting"
  ELSE IF game.forcedStatus # None THEN game.forcedStatus
  ELSE IF IsGameOpen(StartMinutes, EndMinutes, AtMinutes) THEN "open"
  ELSE IF IsGameClosed(StartMinutes, EndMinutes, ResultMinutes, AtMinutes) THEN "closed"
  ELSE IF IsResultTime(StartMinutes, EndMinutes, ResultMinutes, AtMinutes)
    THEN "result_declared"
  ELSE "waiting"

\* The request on record is one placeBet has to reject.
MustReject ==
  \/ ~game.isActive
  \/ StatusAtRequest # "open"
  \/ last.bet.betAmount <= 0
  \/ last.bet.betAmount < game.minBet
  \/ last.bet.betAmount > game.maxBet
  \/ last.pre.wallets[last.bet.userId].depositBalance < last.bet.betAmount
  \/ last.bet.betType \notin GameTypes

\* C12: a placeBet request for an inactive game, outside the open status,
\* with an amount not positive or outside the game's limits, with a deposit
\* balance below the amount or with an invalid bet type is rejected; every
\* rejected request leaves wallets, bets and ledger as they were; a request
\* failing only on the balance is rejected as insufficient balance.
RejectedBetChangesNothing ==
  (last.op = "placeBet") =>
     /\ MustReject => last.outcome # "ok"
     /\ last.outcome # "ok" =>
          /\ bets = last.pre.bets
          /\ wallets = last.pre.wallets
          /\ ledger = last.pre.ledger
     /\ ( /\ game.isActive
          /\ StatusAtRequest = "open"
          /\ last.bet.betAmount >= game.minBet
          /\ last.bet.betAmount <= game.maxBet
          /\ last.pre.wallets[last.bet.userId].depositBalance < last.bet.betAmount )
        => last.outcome = "InsufficientBalance"

\* A player who had placed a bet asked for another of more than was left in
\* the deposit balance, and was refused for that.
InsufficientBalanceRejected ==
  /\ last.op = "placeBet"
  /\ last.outcome = "InsufficientBalance"
  /\ Len(bets) >= 1
  /\ wallets[last.bet.userId].depositBalance > 0
  /\ wallets[last.bet.userId].depositBalance < last.bet.betAmount

\* C13: a placeBet request creates a bet only if the status of the game at
\* the instant of the request, forced or computed from the clock, is open.
BetOnlyWhenOpen ==
  (last.op = "placeBet" /\ Len(bets) > Len(last.pre.bets)) =>
    /\ last.status = "open"
    /\ StatusAtRequest = "open"

\* A bet was placed on the game forced open at an instant outside its window.
BetPlacedWhenOpen ==
  /\ last.op = "placeBet"
  /\ last.outcome = "ok"
  /\ Len(bets) = Len(last.pre.bets) + 1
  /\ game.forcedStatus = "open"
  /\ TimeStatus(game, AtMinutes) = "closed"

\* C14: placeBet rejects a request whose betType is not the game's type, and
\* every stored bet has betType = gameType.
BetTypeIsGameType ==
  /\ \A i \in 1..Len(bets) : bets[i].betType = bets[i].gameType
  /\ (last.op = "placeBet" /\ last.bet.betType # game.type) => last.outcome # "ok"

\* ------------------------------------------------------------ properties of concurrent wallet writes
\* The amounts of the "win" ledger transactions of player u: the credits made
\* to u's wallet.
WinCredits(u) ==
  SumSeq([k \in 1..Len(ledger) |->
            IF ledger[k].type = "win" /\ ledger[k].userId = u THEN ledger[k].amount ELSE 0])

\* C15: once the requests in flight have ended, however the placeBet debits
\* and the settlement credits of the declareResult requests interleaved, each
\* wallet holds what the debits and credits made give one after another: its
\* winningBalance and totalWinnings are the sum of the credits made to it,
\* its totalBets the sum of its player's bets, its depositBalance what was
\* deposited less those bets, and not negative.
WalletWritesSerialized ==
  (\A p \in Procs : runs[p].pc \in {"idle", "done"}) =>
    \A u \in Users :
      /\ wallets[u].winningBalance = WinCredits(u)
      /\ wallets[u].totalWinnings = WinCredits(u)
      /\ wallets[u].totalBets =
           SumSeq([i \in 1..Len(bets) |->
                     IF bets[i].userId = u THEN bets[i].betAmount ELSE 0])
      /\ wallets[u].depositBalance = InitialDeposit - wallets[u].totalBets
      /\ wallets[u].depositBalance >= 0

\* ------------------------------------------------------------ properties of the Wager Evaluator
\* The bet under evaluation, and the result the request declares for a type.
EvalBet == bets[1]
DeclaredFor(t) ==
  CASE t = "jodi" -> last.eval.req.jodiResult
    [] t = "haruf" -> last.eval.req.harufResult
    [] t = "crossing" -> last.eval.req.crossingResult
    [] OTHER -> <<>>

\* The verdicts settlement has reached on the bet, one per settlement path.
SettlementVerdicts ==
  {last.eval.isWinner, last.eval.isWinning} \ {None}

\* C21: a haruf bet with a position tag and a single-digit number, against a
\* declared haruf result of length >= 1, wins on every settlement path iff its
\* digit is the result's first character (position first) or last character
\* (position last), also when the result is longer than two characters.
HarufByPosition ==
  ( /\ last.op = "evaluate"
    /\ EvalBet.betType = "haruf"
    /\ EvalBet.harufPosition \in {"first", "last"}
    /\ Len(EvalBet.betNumber) = 1
    /\ Len(DeclaredFor("haruf")) >= 1 ) =>
    LET result == DeclaredFor("haruf")
        wins == IF EvalBet.harufPosition = "first"
                  THEN EvalBet.betNumber = <<result[1]>>
                  ELSE EvalBet.betNumber = <<result[Len(result)]>>
    IN \A v \in SettlementVerdicts : v = Verdict(wins)

\* C22: a haruf bet with no position tag, and none derivable from its number,
\* wins on every settlement path iff the declared haruf result contains its
\* digit.
HarufLegacyContains ==
  ( /\ last.op = "evaluate"
    /\ EvalBet.betType = "haruf"
    /\ EvalBet.harufPosition = None
    /\ EvalBet.harufDigit = <<>>
    /\ ~MatchesLetterDigit(EvalBet.betNumber)
    /\ DeclaredFor("haruf") # <<>> ) =>
    \A v \in SettlementVerdicts :
      v = Verdict(Includes(DeclaredFor("haruf"), EvalBet.betNumber))

\* The number is digit i followed by digit j of the result, for two distinct
\* positions i and j.
PairOfResult(number, result) ==
  \E i \in 1..Len(result), j \in 1..Len(result) :
    i # j /\ number = <<result[i], result[j]>>

\* C23: a crossing bet wins on every settlement path iff its number is
\* digit i followed by digit j of the declared crossing result for two
\* distinct positions i, j ("123": "12" and "21" win, "11" loses).
CrossingByPairs ==
  (last.op = "evaluate" /\ EvalBet.betType = "crossing" /\ DeclaredFor("crossing") # <<>>) =>
    \A v \in SettlementVerdicts :
      v = Verdict(PairOfResult(EvalBet.betNumber, DeclaredFor("crossing")))

\* C24: for a crossing bet of two digits and a declared result of two digits
\* or more, the verdict of declareResult's subset check is the verdict of
\* checkBetWinning's pairs of distinct positions.
CrossingRulesAgree ==
  ( /\ last.op = "evaluate"
    /\ EvalBet.betType = "crossing"
    /\ Len(EvalBet.betNumber) = 2
    /\ Len(DeclaredFor("crossing")) >= 2
    /\ last.eval.isWinner # None
    /\ last.eval.isWinning # None ) =>
    last.eval.isWinner = last.eval.isWinning

\* C25: checkBetWinning, in settlement and in the user-bets summary, returns
\* not-a-winner and does not throw, for a bet of any type, when the result
\* declared for the bet's type is empty or missing and when it is handed a
\* plain string for the per-type record.
EvaluatorFailsClosed ==
  (last.op = "evaluate") =>
    /\ (last.eval.isWinning # None /\ DeclaredFor(EvalBet.betType) = <<>>) =>
         last.eval.isWinning = "false"
    /\ last.eval.summary \notin {None, "null"} => last.eval.summary = "false"

\* C26: testHarufLogic passes: checkBetWinning returns, for each of the six
\* cases, what the case expects.
SelfTestPasses ==
  last.eval.tested => last.eval.passed = Len(TestCases)

\* ------------------------------------------------------------ properties of the user-bets summary
\* What settlement has credited to player u.
Credited(u) == wallets[u].winningBalance + users[u].winningBalance

\* The verdict settlement applied to bet i: by declareResult in its status,
\* by processBetsForResult in isWinning.
SettledVerdict(i) ==
  IF bets[i].status = "won" \/ bets[i].isWinning = "true" THEN "true" ELSE "false"

\* C27: after a result has been declared and settled, the user-bets summary
\* reports for each bet of the player the verdict settlement applied to it,
\* and its totalWinAmount is what was credited to the player.
SummaryMatchesSettlement ==
  (last.op = "userBets" /\ declared # {}) =>
    /\ last.outcome = "ok"
    /\ \A i \in 1..Len(bets) :
         (bets[i].userId = last.bet.userId /\ bets[i].evals >= 1) =>
           last.summary.isWinning[i] = SettledVerdict(i)
    /\ last.summary.totalWinAmount = Credited(last.bet.userId)

\* ------------------------------------------------------------ properties of the betting limits
\* C28: after any createGame and updateGame requests, also updates carrying
\* only minBet or only maxBet, the stored game has minBet <= maxBet and
\* minBet <= 5000; a rejected request leaves the game as it was.
LimitsKept ==
  /\ game.minBet <= game.maxBet
  /\ game.minBet <= MinBetCap
  /\ (last.op \in {"createGame", "updateGame"} /\ last.outcome # "ok") =>
       game = last.pre.game

\* ------------------------------------------------------------ properties of rounds
\* C29: under every interleaving of placeBet with a declareResult run of the
\* game, once the result of a round is declared no bet of that round is
\* pending, and none is created afterwards.
NoPendingOnceDeclared ==
  \A k \in 1..Len(gameResults) :
    gameResults[k].status = "declared" =>
      \A i \in 1..Len(bets) :
        bets[i].gameDate = gameResults[k].resultDate => bets[i].status # "pending"

\* C30: a declareResult request for result date D changes the status of
\* bets placed for the round of D only, also when resultDate is given.
SettledInOwnRound ==
  \A i \in 1..Len(bets) : bets[i].settledIn # 0 => bets[i].settledIn = bets[i].gameDate

====
